---- MODULE Spec2Model ----
(***************************************************************************)
(* A model of rover's 'compact' command (src/rover/compact.py): the        *)
(* Signature of a block, the bubble sort with merge of Compacter._compact, *)
(* the merge of two adjacent blocks, the replacement of the file on disk   *)
(* and the per-path driver Compacter.process, run over a list of paths.    *)
(*                                                                         *)
(* Times are integers counting ticks of 1/Res second, so that the two      *)
(* roundings of the code, int(1.5 + secs * rate) and int(0.5 + secs *      *)
(* rate), are computed exactly on rationals.  Sample values are integers   *)
(* counting halves, so that a float sample may hold a value that an        *)
(* integer sample cannot, and a cast from float to integer truncates.      *)
(***************************************************************************)
EXTENDS Integers, Sequences, FiniteSets, TLC

\* ------------------------------------------------------------------ bounds
\* ticks per second: the resolution of the modelled start and end times
Res == 2
\* the largest number of blocks of an input file
MaxBlocks == 3
\* the number of paths of one run
MaxFiles == 2
\* the largest number of items of the iterator under a PushBackIterator
MaxItems == 2

\* ------------------------------------------------------------- value sets
\* the sample rates (Hz) whose sample interval is a whole number of ticks
Rates == {r \in 1..Res : Res % r = 0}
DTypes == {"int32", "float64"}
\* sample values, in halves: an integer sample is an even number of halves
FloatVals == {0, 1}
IntVals == {0, 2}
ValsOf(t) == IF t = "int32" THEN IntVals ELSE FloatVals
PathIds == 1..MaxFiles
\* the names a backup may get: <<base name, count>>, count 0 for the bare name
BackupNames == (1..MaxFiles) \X (0..(MaxFiles + 1))
NoFile == [st |-> "absent", blocks |-> <<>>]
NoCopy == <<0, 0>>

Min(a, b) == IF a <= b THEN a ELSE b
Max(a, b) == IF a >= b THEN a ELSE b

VARIABLES
    compact_list, compact_mutate, compact_mixed_types, delete_files, index,
    nfiles,           \* the number of paths the scanner hands to process
    names,            \* basename(path) of each path of the run
    in_store,         \* path.startswith(mseed_dir), per path
    disk,             \* the file at each path
    scratch,          \* the files of temp_dir, by backup name
    orig,             \* the file at each path when the command was first run
    cur,              \* the path being processed (0 before the first)
    pc,               \* the position of the run
    locked,           \* the paths whose lock the run holds
    data,             \* the in-memory block sequence of _compact
    index_lower, mutated, found_duplicates,
    copy,             \* the backup name chosen by _replace
    err,              \* the exception in flight ("none" when there is none)
    events,           \* the exceptions process has raised: <<path, kind>>
    indexed,          \* the paths handed to the indexer, in order
    calls,            \* how often process(cur) has called _merge, _swap, _replace
    crash_at,         \* where the process died ("" while it lives)
    other_lock,       \* the path whose lock another process holds (0: none)
    other_replace,    \* the _replace of another compaction: its position and copy
    iterator,         \* a PushBackIterator: _iter, _pushed and its last call
    again             \* whether this is a second run of the command

vars == <<compact_list, compact_mutate, compact_mixed_types, delete_files, index,
          nfiles, names, in_store, disk, scratch, orig, cur, pc, locked, data,
          index_lower, mutated, found_duplicates, copy, err, events, indexed, calls,
          crash_at, other_lock, other_replace, iterator, again>>

config == <<compact_list, compact_mutate, compact_mixed_types, delete_files, index,
            nfiles, names, in_store, orig>>

\* --------------------------------------------------------------- Signature
\* the sample interval of a rate, in ticks
Interval(rate) == Res \div rate

\* stats.endtime, which obspy derives from starttime, npts and the rate
EndTime(b) == b.start + (b.npts - 1) * Interval(b.rate)

Signature(b) ==
    [snclq |-> b.snclq, sample_rate |-> b.rate,
     start_time |-> b.start, end_time |-> EndTime(b),
     data_type |-> b.dtype, n_samples |-> Len(b.data)]

snclqr(s) == <<s.snclq, s.sample_rate>>

\* a tuple without the end time
tuple_no_end(s) == <<s.snclq, s.sample_rate, s.start_time>>

tuple(s) == <<s.snclq, s.sample_rate, s.start_time, s.end_time>>

\* Python's < on tuples of equal length
RECURSIVE TupleLt(_, _)
TupleLt(a, b) ==
    IF a = <<>> THEN FALSE
    ELSE IF Head(a) # Head(b) THEN Head(a) < Head(b)
    ELSE TupleLt(Tail(a), Tail(b))

SigEq(a, b) == tuple(a) = tuple(b)

\* an order that looks at the start time alone
SigLt_start(a, b) == a.start_time < b.start_time

SigLt(a, b) == TupleLt(tuple(a), tuple(b))

SigLe(a, b) == SigLt(a, b) \/ SigEq(a, b)

\* a comparison that leaves out equality
_before_strict(a, b) == b > a

_before(a, b) == b >= a

_after(a, b) == b <= a

\* a test that takes two spans that only touch for separate
mergeable_apart(self, other) ==
    /\ snclqr(self) = snclqr(other)
    /\ other.start_time < self.end_time /\ self.start_time < other.end_time

mergeable(self, other) ==
    /\ snclqr(self) = snclqr(other)
    /\ \/ _before(other.start_time, self.end_time) /\ _after(other.end_time, self.start_time)
       \/ _before(self.start_time, other.end_time) /\ _after(self.end_time, other.start_time)

\* ------------------------------------------------------- size and offset
\* Python's int() of the rational num / den: truncation towards zero
PyInt(num, den) == IF num >= 0 THEN num \div den ELSE -((-num) \div den)

\* a size that leaves out the sample at the end of the span
_data_size_open(ticks, sample_rate) == PyInt(Res + 2 * ticks * sample_rate, 2 * Res)

\* int(1.5 + secs * sample_rate), secs = ticks / Res
_data_size(ticks, sample_rate) == PyInt(3 * Res + 2 * ticks * sample_rate, 2 * Res)

\* an offset that forgets the shift from the start of the union
_offset_none(zero, start_time, sample_rate) == 0

\* int(0.5 + (start_time - zero) * sample_rate)
_offset(zero, start_time, sample_rate) ==
    PyInt(Res + 2 * (start_time - zero) * sample_rate, 2 * Res)

\* a target range that starts one cell late
_locate_late(zero, signature) ==
    [offset |-> _offset(zero, signature.start_time, signature.sample_rate) + 1,
     length |-> _data_size(signature.end_time - signature.start_time, signature.sample_rate)]

_locate(zero, signature) ==
    [offset |-> _offset(zero, signature.start_time, signature.sample_rate),
     length |-> _data_size(signature.end_time - signature.start_time, signature.sample_rate)]

\* a size check that accepts a buffer shorter than the span says
_assert_size_atmost(ticks, sample_rate, n) == _data_size(ticks, sample_rate) >= n

_assert_size(ticks, sample_rate, n) == _data_size(ticks, sample_rate) = n

\* ------------------------------------------------------------ numpy arrays
\* the value a sample takes when stored in an array of type t
Cast(v, t) == IF t = "int32" THEN 2 * PyInt(v, 2) ELSE v

\* the number of cells of arr[offset:offset+length], arr of n cells
SliceLen(n, offset, length) == Max(0, Min(offset + length, n) - Min(offset, n))

\* arr[offset:offset+length]
Slice(arr, offset, length) ==
    SubSeq(arr, Min(offset, Len(arr)) + 1, Min(offset + length, Len(arr)))

\* whether arr[offset:offset+length] = src is accepted (equal shapes, or a
\* source of one cell, which numpy broadcasts)
SliceFits(arr, offset, length, src) ==
    \/ Len(src) = SliceLen(Len(arr), offset, length)
    \/ Len(src) = 1

\* arr after arr[offset:offset+length] = src, arr an array of type t
SliceAssign(arr, offset, length, src, t) ==
    [k \in 1..Len(arr) |->
        IF offset < k /\ k <= offset + SliceLen(Len(arr), offset, length)
        THEN Cast(src[IF Len(src) = 1 THEN 1 ELSE k - offset], t)
        ELSE arr[k]]

array_equal(a, b) == Len(a) = Len(b) /\ \A k \in 1..Len(a) : a[k] = b[k]

\* ------------------------------------------------------------ the stream
\* data[i], i counted from 0 as in the code
At(d, i) == d[i + 1]

\* obspy's Trace.__eq__: equal stats and numerically equal samples
TraceEq(a, b) ==
    /\ a.snclq = b.snclq /\ a.rate = b.rate /\ a.start = b.start /\ a.npts = b.npts
    /\ array_equal(a.data, b.data)

\* the sequence without its element at position j (from 1)
DropAt(d, j) == SubSeq(d, 1, j - 1) \o SubSeq(d, j + 1, Len(d))

\* a remove that deletes the last block equal to x
Remove_last(d, x) ==
    LET hits == {j \in 1..Len(d) : TraceEq(d[j], x)}
    IN  IF hits = {} THEN d
        ELSE DropAt(d, CHOOSE j \in hits : \A k \in hits : j >= k)

\* data.remove(x): the first block equal to x is deleted
Remove(d, x) ==
    LET hits == {j \in 1..Len(d) : TraceEq(d[j], x)}
    IN  IF hits = {} THEN d
        ELSE DropAt(d, CHOOSE j \in hits : \A k \in hits : j <= k)

\* data.insert(i, x), i counted from 0
Insert(d, i, x) ==
    LET at == Min(i, Len(d))
    IN  SubSeq(d, 1, at) \o <<x>> \o SubSeq(d, at + 1, Len(d))

\* a swap that takes the upper block out and does not put it back
_swap_lost(d, i) == Remove(d, At(d, i - 1))

\* a swap that puts the upper block back where it was
_swap_back(d, i) ==
    LET upper == At(d, i - 1)
    IN  Insert(Remove(d, upper), i - 1, upper)

\* upper = data[index-1]; data.remove(upper); data.insert(index, upper)
_swap(d, i) ==
    LET upper == At(d, i - 1)
    IN  Insert(Remove(d, upper), i, upper)

\* a type check that lets every pair through
type_conflict_never(lower_sig, upper_sig, mixed_types) == FALSE

\* if lower.data_type != upper.data_type: ... raise unless mixed types
type_conflict(lower_sig, upper_sig, mixed_types) ==
    lower_sig.data_type # upper_sig.data_type /\ ~mixed_types

\* the two _assert_size calls
sizes_ok(lower_sig, upper_sig, n_upper, n_lower) ==
    /\ _assert_size(upper_sig.end_time - upper_sig.start_time, upper_sig.sample_rate, n_upper)
    /\ _assert_size(lower_sig.end_time - lower_sig.start_time, lower_sig.sample_rate, n_lower)

\* the two copies in the other order: the older samples end on top
copy_both_upper_last(empty, ul, upper_data, ll, lower_data, t) ==
    SliceAssign(SliceAssign(empty, ll.offset, ll.length, lower_data, t),
                ul.offset, ul.length, upper_data, t)

\* np.empty, then the older samples, then the newer ones over them
copy_both(empty, ul, upper_data, ll, lower_data, t) ==
    SliceAssign(SliceAssign(empty, ul.offset, ul.length, upper_data, t),
                ll.offset, ll.length, lower_data, t)

\* a check that never finds the older samples changed
modified_never(new_data, ul, upper_data) == FALSE

\* not np.array_equal(new_data[offset:offset+length], data[index-1].data)
modified(new_data, ul, upper_data) ==
    ~array_equal(Slice(new_data, ul.offset, ul.length), upper_data)

\* _merge(data, index, lower, upper) with garbage as the content of the
\* cells np.empty leaves uninitialised: the exception raised ("none" when
\* there is none) and the stream afterwards
_merge(d, i, mixed_types, mutate, garbage) ==
    LET ub == At(d, i - 1)
        lb == At(d, i)
        upper_sig == Signature(ub)
        lower_sig == Signature(lb)
        start_time == Min(lower_sig.start_time, upper_sig.start_time)
        end_time == Max(lower_sig.end_time, upper_sig.end_time)
        n_samples == _data_size(end_time - start_time, lower_sig.sample_rate)
        empty == [k \in 1..n_samples |-> garbage]
        ul == _locate(start_time, upper_sig)
        ll == _locate(start_time, lower_sig)
        with_upper == SliceAssign(empty, ul.offset, ul.length, ub.data, lower_sig.data_type)
        new_data == copy_both(empty, ul, ub.data, ll, lb.data, lower_sig.data_type)
        merged == [ub EXCEPT !.data = new_data, !.dtype = lower_sig.data_type,
                             !.start = start_time, !.npts = n_samples]
        replaced == [d EXCEPT ![i] = merged]
    IN  IF type_conflict(lower_sig, upper_sig, mixed_types)
        THEN [err |-> "TypeConflict", data |-> d]
        ELSE IF ~sizes_ok(lower_sig, upper_sig, Len(ub.data), Len(lb.data))
        THEN [err |-> "SizeCorruption", data |-> d]
        ELSE IF ~SliceFits(empty, ul.offset, ul.length, ub.data)
                \/ ~SliceFits(with_upper, ll.offset, ll.length, lb.data)
        THEN [err |-> "ValueError", data |-> d]
        ELSE IF modified(new_data, ul, ub.data) /\ ~mutate
        THEN [err |-> "MutationConflict", data |-> d]
        ELSE [err |-> "none", data |-> Remove(replaced, At(replaced, i))]

\* ---------------------------------------------------------- input domains
\* the numbers of samples of an input block
Pts == {1, 2}

\* the blocks with a channel key (<<snclq, rate>>) of keys, a start of starts,
\* a type of types, npts of Pts and, when sized, as many samples as npts
\* says (otherwise any number of samples of Pts)
BlocksOf(keys, starts, types, sized) ==
    UNION {UNION {UNION {
        {[snclq |-> k[1], rate |-> k[2], start |-> s, npts |-> n, dtype |-> t, data |-> a] :
            s \in starts, a \in UNION {[1..l -> ValsOf(t)] :
                                         l \in IF sized THEN {n} ELSE Pts}}
        : n \in Pts} : t \in types} : k \in keys}

\* the streams of at most n blocks of B
StreamsOf(B, n) == UNION {[1..k -> B] : k \in 0..n}

File(blocks) == [st |-> "complete", blocks |-> blocks]

Constant(a) == \A k \in 1..Len(a) : a[k] = a[1]

\* for the sort: the blocks of the channel <<1, 1>> start on whole seconds,
\* have sound sizes, and only the block of one sample that starts at 0 may
\* hold a sample other than 0; one more block of that channel starts one tick after a whole
\* second; and three blocks of one sample are of other channels (another
\* stream, another rate, or both), each earlier in channel order than the
\* one that starts before it
SortBlocks ==
    {b \in BlocksOf({<<1, 1>>, <<1, Res>>, <<2, 1>>, <<2, Res>>},
                    {0, 1, Res, 2 * Res}, {"int32"}, TRUE) :
        /\ Constant(b.data)
        /\ b.data[1] # 0 => (b.snclq = 1 /\ b.rate = 1 /\ b.npts = 1 /\ b.start = 0)
        /\ b.start = 1 => (b.snclq = 1 /\ b.rate = 1 /\ b.npts = 2)
        /\ (b.snclq = 1 /\ b.rate = Res) => (b.npts = 1 /\ b.start = 2 * Res)
        /\ (b.snclq = 2 /\ b.rate = 1) => (b.npts = 1 /\ b.start = Res)
        /\ (b.snclq = 2 /\ b.rate = Res) => (b.npts = 1 /\ b.start = 0)}

\* for the merge: one stream per rate, starts on every tick of the first
\* second, both types, sample counts that may differ from npts, and at most
\* one sample other than 0
MergeBlocks ==
    {b \in BlocksOf({<<1, r>> : r \in Rates}, 0..Res, DTypes, FALSE) :
        Cardinality({k \in 1..Len(b.data) : b.data[k] # 0}) <= 1}

\* for the run over several paths: one channel, one sample per block
RunBlocks ==
    {b \in BlocksOf({<<1, 1>>}, {0, Res}, {"int32"}, TRUE) :
        b.npts = 1 /\ (b.start = Res => b.data[1] = 0)}

\* the files of such a run: the file of no block, and the pairs of blocks
\* that are equal, that differ in a sample, that are in order and that are not
RunFiles ==
    {File(d) : d \in {e \in StreamsOf(RunBlocks, 2) :
        /\ Len(e) # 1
        /\ Len(e) = 2 =>
              /\ e[1].data[1] = 0
              /\ e[1].start = Res => (e[2].start = 0 /\ e[2].data[1] = 0)}}

\* ------------------------------------------------------ PushBackIterator
\* the values pushed and iterated over, as Python writes them
Values == {"None", "0", "''", "1", "'a'"}

\* bool(v), which `if v:` tests
truth(v) == v \notin {"None", "0", "''"}

\* a call of the iterator and what came of it
Call(op, value, raised) == [op |-> op, value |-> value, raised |-> raised]

\* PushBackIterator.__init__ over the items of iter; pending and held keep
\* track of the value that was pushed and has not been asked for since
PushBackIterator(iter) ==
    [_iter |-> iter, _pushed |-> "None", last |-> Call("init", "None", FALSE),
     pending |-> FALSE, held |-> "None"]

\* the iterator of a state in which none is in use
NoIterator == PushBackIterator(<<>>)

\* ---------------------------------------------------------------- Init
\* the state after Compacter.__init__, before the scanner hands over a path
InitRun ==
    /\ pc = "scan" /\ cur = 0 /\ locked = {} /\ data = <<>>
    /\ index_lower = 1 /\ mutated = FALSE /\ found_duplicates = FALSE
    /\ copy = NoCopy /\ err = "none" /\ events = <<>> /\ indexed = <<>>
    /\ calls = [merge |-> 0, swap |-> 0, replace |-> 0]
    /\ crash_at = "" /\ other_lock = 0 /\ again = FALSE
    /\ other_replace = [pc |-> "idle", copy |-> NoCopy]
    /\ iterator = NoIterator
    /\ orig = disk

\* a run over MaxFiles paths, of equal or of different base names, with or
\* without an older backup in temp_dir
Init ==
    /\ compact_list \in BOOLEAN /\ compact_mutate \in BOOLEAN
    /\ delete_files \in BOOLEAN
    /\ compact_mixed_types = FALSE /\ index \in BOOLEAN
    /\ nfiles = MaxFiles
    /\ names \in {[p \in PathIds |-> 1], [p \in PathIds |-> p]}
    /\ in_store = [p \in PathIds |-> p = 1]
    /\ disk \in [PathIds -> RunFiles]
    /\ \E old \in {NoFile, File(<<>>)} :
          scratch = [n \in BackupNames |-> IF n = <<1, 0>> THEN old ELSE NoFile]
    /\ InitRun

\* one file of up to MaxBlocks blocks to sort and merge
InitSort ==
    /\ compact_list \in BOOLEAN /\ compact_mutate \in BOOLEAN
    /\ compact_mixed_types = FALSE /\ delete_files = TRUE /\ index = TRUE
    /\ nfiles = 1
    /\ names = [p \in PathIds |-> 1]
    /\ in_store = [p \in PathIds |-> TRUE]
    /\ \E d \in StreamsOf(SortBlocks, MaxBlocks) :
          disk = [p \in PathIds |-> IF p = 1 THEN File(d) ELSE NoFile]
    /\ scratch = [n \in BackupNames |-> NoFile]
    /\ InitRun

\* one file of two blocks of one channel
InitMerge ==
    /\ compact_list \in BOOLEAN /\ compact_mutate \in BOOLEAN
    /\ compact_mixed_types \in BOOLEAN
    /\ delete_files = FALSE /\ index = TRUE
    /\ nfiles = 1
    /\ names = [p \in PathIds |-> 1]
    /\ in_store = [p \in PathIds |-> TRUE]
    /\ \E d \in [1..2 -> MergeBlocks] :
          disk = [p \in PathIds |-> IF p = 1 THEN File(d) ELSE NoFile]
    /\ scratch = [n \in BackupNames |-> NoFile]
    /\ InitRun

\* no run: a PushBackIterator over up to MaxItems items
InitIter ==
    /\ compact_list = FALSE /\ compact_mutate = FALSE
    /\ compact_mixed_types = FALSE /\ delete_files = FALSE /\ index = FALSE
    /\ nfiles = 0
    /\ names = [p \in PathIds |-> 1]
    /\ in_store = [p \in PathIds |-> TRUE]
    /\ disk = [p \in PathIds |-> NoFile]
    /\ scratch = [n \in BackupNames |-> NoFile]
    /\ pc = "scan" /\ cur = 0 /\ locked = {} /\ data = <<>>
    /\ index_lower = 1 /\ mutated = FALSE /\ found_duplicates = FALSE
    /\ copy = NoCopy /\ err = "none" /\ events = <<>> /\ indexed = <<>>
    /\ calls = [merge |-> 0, swap |-> 0, replace |-> 0]
    /\ crash_at = "" /\ other_lock = 0 /\ again = FALSE
    /\ other_replace = [pc |-> "idle", copy |-> NoCopy]
    /\ orig = disk
    /\ \E iter \in StreamsOf(Values, MaxItems) : iterator = PushBackIterator(iter)

\* ------------------------------------------------------------ the scanner
\* the scanner hands the next path to process, or the run ends
ScanNext ==
    /\ pc = "scan"
    /\ IF cur < nfiles
       THEN cur' = cur + 1 /\ pc' = "process"
       ELSE cur' = cur /\ pc' = "done"
    /\ UNCHANGED <<crash_at, other_lock, other_replace, iterator, again, config, disk, scratch, locked, data, index_lower, mutated,
                   found_duplicates, copy, err, events, indexed, calls>>

\* an exception left process: the run goes on with the next path
ScanContinue ==
    /\ pc = "raised"
    /\ pc' = "scan" /\ err' = "none"
    /\ UNCHANGED <<crash_at, other_lock, other_replace, iterator, again, config, disk, scratch, cur, locked, data, index_lower, mutated,
                   found_duplicates, copy, events, indexed, calls>>

\* an exception left process: it ends the run
ScanAbort ==
    /\ pc = "raised"
    /\ pc' = "aborted"
    /\ UNCHANGED <<crash_at, other_lock, other_replace, iterator, again, config, disk, scratch, cur, locked, data, index_lower, mutated,
                   found_duplicates, copy, err, events, indexed, calls>>

\* the command is run a second time over the same paths, after a run in
\* which no process raised
RunAgain ==
    /\ pc = "done" /\ events = <<>> /\ ~again
    /\ again' = TRUE
    /\ pc' = "scan" /\ cur' = 0 /\ data' = <<>>
    /\ index_lower' = 1 /\ mutated' = FALSE /\ found_duplicates' = FALSE
    /\ copy' = NoCopy /\ indexed' = <<>>
    /\ calls' = [merge |-> 0, swap |-> 0, replace |-> 0]
    /\ UNCHANGED <<config, disk, scratch, locked, err, events, crash_at, other_lock,
                   other_replace, iterator>>

\* ---------------------------------------------------------------- process
ProcessEnter ==
    /\ pc = "process"
    /\ found_duplicates' = FALSE
    /\ calls' = [merge |-> 0, swap |-> 0, replace |-> 0]
    /\ pc' = "lock"
    /\ UNCHANGED <<crash_at, other_lock, other_replace, iterator, again, config, disk, scratch, cur, locked, data, index_lower, mutated,
                   copy, err, events, indexed>>

\* with self._lock_factory.lock(path): entered once no one holds the lock
AcquireLock ==
    /\ pc = "lock"
    /\ cur \notin locked /\ other_lock # cur
    /\ locked' = locked \cup {cur}
    /\ pc' = "read"
    /\ UNCHANGED <<crash_at, other_lock, other_replace, iterator, again, config, disk, scratch, cur, data, index_lower, mutated,
                   found_duplicates, copy, err, events, indexed, calls>>

\* _compact: data = read(path); index_lower, mutated = 1, False
Read ==
    /\ pc = "read"
    /\ data' = disk[cur].blocks
    /\ index_lower' = 1 /\ mutated' = FALSE
    /\ pc' = "loop"
    /\ UNCHANGED <<crash_at, other_lock, other_replace, iterator, again, config, disk, scratch, cur, locked, found_duplicates, copy,
                   err, events, indexed, calls>>

\* a cursor that moves on after a swap or a merge
follow_on(i) == i + 1

\* a cursor that stays where it is after a swap or a merge
follow_stay(i) == i

\* index_lower = max(1, index_lower-1)
follow(i) == Max(1, i - 1)

lower == Signature(At(data, index_lower))

upper == Signature(At(data, index_lower - 1))

InLoop == pc = "loop" /\ index_lower < Len(data)

\* list-only: note the duplicates and return
ListDuplicates ==
    /\ InLoop /\ mergeable(lower, upper) /\ compact_list
    /\ found_duplicates' = TRUE
    /\ pc' = "unlock"
    /\ UNCHANGED <<crash_at, other_lock, other_replace, iterator, again, config, disk, scratch, cur, locked, data, index_lower, mutated,
                   copy, err, events, indexed, calls>>

MergeStep ==
    /\ InLoop /\ mergeable(lower, upper) /\ ~compact_list
    /\ \E garbage \in ValsOf(lower.data_type) :
        LET r == _merge(data, index_lower, compact_mixed_types, compact_mutate, garbage)
        IN  /\ data' = r.data
            /\ err' = r.err
            /\ IF r.err = "none"
               THEN /\ index_lower' = follow(index_lower)
                    /\ mutated' = TRUE
                    /\ pc' = "loop"
               ELSE /\ UNCHANGED <<index_lower, mutated>>
                    /\ pc' = "unwind"
    /\ calls' = [calls EXCEPT !.merge = @ + 1]
    /\ UNCHANGED <<crash_at, other_lock, other_replace, iterator, again, config, disk, scratch, cur, locked, found_duplicates, copy,
                   events, indexed>>

\* a listing that leaves the blocks where they are and moves on
SwapStepUnlessList ==
    /\ InLoop /\ ~mergeable(lower, upper) /\ SigLt(lower, upper)
    /\ IF compact_list
       THEN /\ index_lower' = index_lower + 1
            /\ UNCHANGED <<data, mutated, calls>>
       ELSE /\ data' = _swap(data, index_lower)
            /\ index_lower' = follow(index_lower)
            /\ mutated' = TRUE
            /\ calls' = [calls EXCEPT !.swap = @ + 1]
    /\ UNCHANGED <<crash_at, other_lock, other_replace, iterator, again, config, disk, scratch, cur, pc, locked,
                   found_duplicates, copy, err, events, indexed>>

SwapStep ==
    /\ InLoop /\ ~mergeable(lower, upper) /\ SigLt(lower, upper)
    /\ data' = _swap(data, index_lower)
    /\ index_lower' = follow(index_lower)
    /\ mutated' = TRUE
    /\ calls' = [calls EXCEPT !.swap = @ + 1]
    /\ UNCHANGED <<crash_at, other_lock, other_replace, iterator, again, config, disk, scratch, cur, pc, locked, found_duplicates, copy,
                   err, events, indexed>>

Advance ==
    /\ InLoop /\ ~mergeable(lower, upper) /\ ~SigLt(lower, upper)
    /\ index_lower' = index_lower + 1
    /\ UNCHANGED <<crash_at, other_lock, other_replace, iterator, again, config, disk, scratch, cur, pc, locked, data, mutated,
                   found_duplicates, copy, err, events, indexed, calls>>

\* the loop is left, and the stream written whether it changed or not
LoopExitAlways ==
    /\ pc = "loop" /\ ~(index_lower < Len(data))
    /\ IF ~compact_list
       THEN pc' = "replace" /\ calls' = [calls EXCEPT !.replace = @ + 1]
       ELSE pc' = "unlock" /\ calls' = calls
    /\ UNCHANGED <<crash_at, other_lock, other_replace, iterator, again, config, disk, scratch, cur, locked, data,
                   index_lower, mutated, found_duplicates, copy, err, events, indexed>>

\* the loop is left, and the stream written whenever it changed
LoopExitWrites ==
    /\ pc = "loop" /\ ~(index_lower < Len(data))
    /\ IF mutated
       THEN pc' = "replace" /\ calls' = [calls EXCEPT !.replace = @ + 1]
       ELSE pc' = "unlock" /\ calls' = calls
    /\ UNCHANGED <<crash_at, other_lock, other_replace, iterator, again, config, disk, scratch, cur, locked, data, index_lower, mutated,
                   found_duplicates, copy, err, events, indexed>>

\* the loop is left: write the stream if it changed and this is no listing
LoopExit ==
    /\ pc = "loop" /\ ~(index_lower < Len(data))
    /\ IF ~compact_list /\ mutated
       THEN pc' = "replace" /\ calls' = [calls EXCEPT !.replace = @ + 1]
       ELSE pc' = "unlock" /\ calls' = calls
    /\ UNCHANGED <<crash_at, other_lock, other_replace, iterator, again, config, disk, scratch, cur, locked, data, index_lower, mutated,
                   found_duplicates, copy, err, events, indexed>>

\* --------------------------------------------------------------- _replace
exists(n) == scratch[n].st # "absent"

\* unique_filename(join(temp_dir, basename(path)))
unique_filename(base) ==
    IF exists(<<base, 0>>)
    THEN <<base, CHOOSE c \in 1..(MaxFiles + 1) :
                    /\ ~exists(<<base, c>>)
                    /\ \A k \in 1..(c - 1) : exists(<<base, k>>)>>
    ELSE <<base, 0>>

\* _replace without the move: the new file is written over the old one
UniqueFilenameNoMove ==
    /\ pc = "replace"
    /\ copy' = unique_filename(names[cur])
    /\ pc' = "write"
    /\ UNCHANGED <<crash_at, other_lock, other_replace, iterator, again, config, disk, scratch, cur, locked, data, index_lower, mutated,
                   found_duplicates, err, events, indexed, calls>>

UniqueFilename ==
    /\ pc = "replace"
    /\ copy' = unique_filename(names[cur])
    /\ pc' = "move"
    /\ UNCHANGED <<crash_at, other_lock, other_replace, iterator, again, config, disk, scratch, cur, locked, data, index_lower, mutated,
                   found_duplicates, err, events, indexed, calls>>

\* move(path, copy) as a rename
MoveRename ==
    /\ pc = "move"
    /\ scratch' = [scratch EXCEPT ![copy] = disk[cur]]
    /\ disk' = [disk EXCEPT ![cur] = NoFile]
    /\ pc' = "write"
    /\ UNCHANGED <<crash_at, other_lock, other_replace, iterator, again, config, cur, locked, data, index_lower, mutated,
                   found_duplicates, copy, err, events, indexed, calls>>

\* move(path, copy) across file systems: copy, then unlink
MoveCopyBegin ==
    /\ pc = "move"
    /\ scratch' = [scratch EXCEPT ![copy] = [disk[cur] EXCEPT !.st = "partial"]]
    /\ pc' = "copying"
    /\ UNCHANGED <<crash_at, other_lock, other_replace, iterator, again, config, disk, cur, locked, data, index_lower, mutated,
                   found_duplicates, copy, err, events, indexed, calls>>

MoveCopyEnd ==
    /\ pc = "copying"
    /\ scratch' = [scratch EXCEPT ![copy] = disk[cur]]
    /\ pc' = "copied"
    /\ UNCHANGED <<crash_at, other_lock, other_replace, iterator, again, config, disk, cur, locked, data, index_lower, mutated,
                   found_duplicates, copy, err, events, indexed, calls>>

MoveUnlink ==
    /\ pc = "copied"
    /\ disk' = [disk EXCEPT ![cur] = NoFile]
    /\ pc' = "write"
    /\ UNCHANGED <<crash_at, other_lock, other_replace, iterator, again, config, scratch, cur, locked, data, index_lower, mutated,
                   found_duplicates, copy, err, events, indexed, calls>>

\* data.write(path): the file is created and filled
WriteBegin ==
    /\ pc = "write"
    /\ disk' = [disk EXCEPT ![cur] = [st |-> "partial", blocks |-> data]]
    /\ pc' = "writing"
    /\ UNCHANGED <<crash_at, other_lock, other_replace, iterator, again, config, scratch, cur, locked, data, index_lower, mutated,
                   found_duplicates, copy, err, events, indexed, calls>>

WriteEnd ==
    /\ pc = "writing"
    /\ disk' = [disk EXCEPT ![cur] = File(data)]
    /\ pc' = "written"
    /\ UNCHANGED <<crash_at, other_lock, other_replace, iterator, again, config, scratch, cur, locked, data, index_lower, mutated,
                   found_duplicates, copy, err, events, indexed, calls>>

\* a failed write that tidies up temp_dir
WriteFailUnlinks ==
    /\ pc \in {"write", "writing"}
    /\ err' = "WriteError"
    /\ scratch' = [scratch EXCEPT ![copy] = NoFile]
    /\ pc' = "unwind"
    /\ UNCHANGED <<crash_at, other_lock, other_replace, iterator, again, config, disk, cur, locked, data, index_lower, mutated,
                   found_duplicates, copy, events, indexed, calls>>

\* data.write(path) raises, before the file is created or part-way through
WriteFail ==
    /\ pc \in {"write", "writing"}
    /\ err' = "WriteError"
    /\ pc' = "unwind"
    /\ UNCHANGED <<crash_at, other_lock, other_replace, iterator, again, config, disk, scratch, cur, locked, data, index_lower, mutated,
                   found_duplicates, copy, events, indexed, calls>>

\* a _replace that tidies up temp_dir whatever delete_files says
DeleteCopyAlways ==
    /\ pc = "written"
    /\ scratch' = [scratch EXCEPT ![copy] = NoFile]
    /\ pc' = "unlock"
    /\ UNCHANGED <<crash_at, other_lock, other_replace, iterator, again, config, disk, cur, locked, data, index_lower, mutated,
                   found_duplicates, copy, err, events, indexed, calls>>

\* if self._delete_files: safe_unlink(copy)
DeleteCopy ==
    /\ pc = "written"
    /\ scratch' = IF delete_files /\ exists(copy)
                  THEN [scratch EXCEPT ![copy] = NoFile]
                  ELSE scratch
    /\ pc' = "unlock"
    /\ UNCHANGED <<crash_at, other_lock, other_replace, iterator, again, config, disk, cur, locked, data, index_lower, mutated,
                   found_duplicates, copy, err, events, indexed, calls>>

ReplacePcs == {"replace", "move", "copying", "copied", "write", "writing", "written"}

\* the process dies inside _replace
Crash ==
    /\ pc \in ReplacePcs
    /\ pc' = "crashed"
    /\ crash_at' = pc
    /\ UNCHANGED <<other_lock, other_replace, iterator, again, config, disk, scratch, cur, locked, data, index_lower, mutated,
                   found_duplicates, copy, err, events, indexed, calls>>

\* ------------------------------------------------- the end of process
\* a with block that reaches over the call of the indexer
ReleaseLockLate ==
    /\ pc = "unlock"
    /\ pc' = "index"
    /\ UNCHANGED <<crash_at, other_lock, other_replace, iterator, again, config, disk, scratch, cur, locked, data,
                   index_lower, mutated, found_duplicates, copy, err, events, indexed,
                   calls>>

\* the with block is left normally
ReleaseLock ==
    /\ pc = "unlock"
    /\ locked' = locked \ {cur}
    /\ pc' = "index"
    /\ UNCHANGED <<crash_at, other_lock, other_replace, iterator, again, config, disk, scratch, cur, data, index_lower, mutated,
                   found_duplicates, copy, err, events, indexed, calls>>

\* an exception that leaves process with the lock still held
UnwindKeepsLock ==
    /\ pc = "unwind"
    /\ events' = Append(events, <<cur, err>>)
    /\ pc' = "raised"
    /\ UNCHANGED <<crash_at, other_lock, other_replace, iterator, again, config, disk, scratch, cur, locked, data,
                   index_lower, mutated, found_duplicates, copy, err, indexed, calls>>

\* the with block is left by an exception, which leaves process
Unwind ==
    /\ pc = "unwind"
    /\ locked' = locked \ {cur}
    /\ events' = Append(events, <<cur, err>>)
    /\ pc' = "raised"
    /\ UNCHANGED <<crash_at, other_lock, other_replace, iterator, again, config, disk, scratch, cur, data, index_lower, mutated,
                   found_duplicates, copy, err, indexed, calls>>

\* an indexer that is called only for a file that was changed
IndexStepIfMutated ==
    /\ pc = "index"
    /\ indexed' = IF index /\ in_store[cur] /\ mutated THEN Append(indexed, cur) ELSE indexed
    /\ pc' = "finish"
    /\ UNCHANGED <<crash_at, other_lock, other_replace, iterator, again, config, disk, scratch, cur, locked, data,
                   index_lower, mutated, found_duplicates, copy, err, events, calls>>

\* if self._index: if path.startswith(self._mseed_dir): Indexer(...).run([path])
IndexStep ==
    /\ pc = "index"
    /\ indexed' = IF index /\ in_store[cur] THEN Append(indexed, cur) ELSE indexed
    /\ pc' = "finish"
    /\ UNCHANGED <<crash_at, other_lock, other_replace, iterator, again, config, disk, scratch, cur, locked, data, index_lower, mutated,
                   found_duplicates, copy, err, events, calls>>

\* if self._found_duplicates: raise Exception(...)
Finish ==
    /\ pc = "finish"
    /\ IF found_duplicates
       THEN /\ err' = "DuplicatesFound"
            /\ events' = Append(events, <<cur, "DuplicatesFound">>)
            /\ pc' = "raised"
       ELSE /\ UNCHANGED <<err, events>>
            /\ pc' = "scan"
    /\ UNCHANGED <<crash_at, other_lock, other_replace, iterator, again, config, disk, scratch, cur, locked, data, index_lower, mutated,
                   found_duplicates, copy, indexed, calls>>

\* -------------------------------------------------- another lock holder
\* another process, at work on the first path of the run, takes the lock of
\* that path when it is free
OtherAcquire ==
    /\ other_lock = 0
    /\ 1 \notin locked /\ other_lock' = 1
    /\ UNCHANGED <<crash_at, other_replace, iterator, again, config, disk, scratch, cur, pc, locked, data,
                   index_lower, mutated, found_duplicates, copy, err, events, indexed,
                   calls>>

OtherRelease ==
    /\ other_lock # 0
    /\ other_lock' = 0
    /\ UNCHANGED <<crash_at, other_replace, iterator, again, config, disk, scratch, cur, pc, locked, data,
                   index_lower, mutated, found_duplicates, copy, err, events, indexed,
                   calls>>

\* ------------------------------------------------ another compaction
\* the file of a path that is none of the paths of the run and has the base
\* name of the first of them
OtherFile ==
    File(<<[snclq |-> 1, rate |-> 1, start |-> 0, npts |-> 1, dtype |-> "int32",
            data |-> <<0>>]>>)

\* another process, holding the lock of that path, is in _replace:
\* copy = unique_filename(join(temp_dir, basename(path)))
OtherUniqueFilename ==
    /\ other_replace.pc = "idle"
    /\ other_replace' = [pc |-> "move", copy |-> unique_filename(1)]
    /\ UNCHANGED <<crash_at, other_lock, iterator, again, config, disk, scratch, cur, pc, locked, data,
                   index_lower, mutated, found_duplicates, copy, err, events, indexed,
                   calls>>

\* move(path, copy) of the other process
OtherMove ==
    /\ other_replace.pc = "move"
    /\ scratch' = [scratch EXCEPT ![other_replace.copy] = OtherFile]
    /\ other_replace' = [other_replace EXCEPT !.pc = "moved"]
    /\ UNCHANGED <<crash_at, other_lock, iterator, again, config, disk, cur, pc, locked, data,
                   index_lower, mutated, found_duplicates, copy, err, events, indexed,
                   calls>>

\* ------------------------------------------------- PushBackIterator calls
run_vars == <<crash_at, other_lock, other_replace, again, config, disk, scratch, cur, pc,
              locked, data, index_lower, mutated, found_duplicates, copy, err, events,
              indexed, calls>>

\* if self._pushed: raise Exception(...); self._pushed = value
push(value) ==
    /\ IF truth(iterator._pushed)
       THEN iterator' = [iterator EXCEPT !.last = Call("push", value, TRUE)]
       ELSE iterator' = [iterator EXCEPT
                            !._pushed = value,
                            !.last = Call("push", value, FALSE),
                            !.pending = TRUE,
                            !.held = IF iterator.pending THEN @ ELSE value]
    /\ UNCHANGED run_vars

\* if self._pushed: value, self._pushed = self._pushed, None
\* else: value = next(self._iter), which raises StopIteration at the end
__next__ ==
    /\ IF truth(iterator._pushed)
       THEN iterator' = [iterator EXCEPT
                            !._pushed = "None",
                            !.last = Call("next", iterator._pushed, FALSE),
                            !.pending = FALSE]
       ELSE IF iterator._iter # <<>>
       THEN iterator' = [iterator EXCEPT
                            !._iter = Tail(@),
                            !.last = Call("next", Head(iterator._iter), FALSE),
                            !.pending = FALSE]
       ELSE iterator' = [iterator EXCEPT
                            !.last = Call("next", "None", TRUE),
                            !.pending = FALSE]
    /\ UNCHANGED run_vars

NextIter == (\E value \in Values : push(value)) \/ __next__

Next ==
    \/ ScanNext \/ ScanContinue \/ ScanAbort
    \/ ProcessEnter \/ AcquireLock \/ Read
    \/ ListDuplicates \/ MergeStep \/ SwapStep \/ Advance \/ LoopExit
    \/ UniqueFilename \/ MoveRename \/ MoveCopyBegin \/ MoveCopyEnd \/ MoveUnlink
    \/ WriteBegin \/ WriteEnd \/ WriteFail \/ DeleteCopy \/ Crash
    \/ ReleaseLock \/ Unwind \/ IndexStep \/ Finish
    \/ OtherAcquire \/ OtherRelease
    \/ RunAgain

Spec == Init /\ [][Next]_vars

SpecSort == InitSort /\ [][Next]_vars

SpecMerge == InitMerge /\ [][Next]_vars

\* the run together with a compaction, by another process, of a path of the
\* same base name
NextPair == Next \/ OtherUniqueFilename \/ OtherMove

SpecPair == Init /\ [][NextPair]_vars

\* the calls of a PushBackIterator, in any order
SpecIter == InitIter /\ [][NextIter]_vars

\* for the loop: the blocks of SortBlocks of three channels, those of the
\* channel <<1, 1>> on whole seconds, of two samples only from 0
LoopBlocks ==
    {b \in SortBlocks :
        /\ b.start # 1 /\ (b.npts = 2 => b.start = 0)
        /\ ~(b.snclq = 2 /\ b.rate = Res)}

\* one file of up to MaxBlocks blocks of LoopBlocks
InitLoop ==
    /\ compact_list \in BOOLEAN /\ compact_mutate \in BOOLEAN
    /\ compact_mixed_types = FALSE /\ delete_files = TRUE /\ index = TRUE
    /\ nfiles = 1
    /\ names = [p \in PathIds |-> 1]
    /\ in_store = [p \in PathIds |-> TRUE]
    /\ \E d \in StreamsOf(LoopBlocks, MaxBlocks) :
          disk = [p \in PathIds |-> IF p = 1 THEN File(d) ELSE NoFile]
    /\ scratch = [n \in BackupNames |-> NoFile]
    /\ InitRun

\* the loop of _compact is about to call _merge: MergeStep is enabled, and
\* every MergeStep changes calls
MergePending == InLoop /\ mergeable(lower, upper) /\ ~compact_list

\* the sort of one file by a process that keeps running: inside the while
\* loop the body is executed.  The last conjunct is WF_vars(MergeStep) with
\* ENABLED <<MergeStep>>_vars written as the state predicate it equals.
SpecLoop ==
    /\ InitLoop /\ [][Next]_vars
    /\ WF_vars(ListDuplicates \/ SwapStep \/ Advance)
    /\ ([]<>~MergePending \/ []<><<MergeStep>>_vars)

\* ================================================================ claims
\* the order of the claims on signatures, written out field by field
OrderLe(a, b) ==
    \/ a.snclq < b.snclq
    \/ /\ a.snclq = b.snclq
       /\ \/ a.sample_rate < b.sample_rate
          \/ /\ a.sample_rate = b.sample_rate
             /\ \/ a.start_time < b.start_time
                \/ a.start_time = b.start_time /\ a.end_time <= b.end_time

\* same channel key, and the closed time spans overlap or touch
Overlap(a, b) ==
    /\ a.snclq = b.snclq /\ a.sample_rate = b.sample_rate
    /\ a.start_time <= b.end_time /\ b.start_time <= a.end_time

InOrder(d) ==
    \A k \in 1..(Len(d) - 1) :
        /\ OrderLe(Signature(d[k]), Signature(d[k + 1]))
        /\ ~Overlap(Signature(d[k]), Signature(d[k + 1]))

\* the loop condition of _compact is false: the loop exits normally
LoopExited == pc = "loop" /\ ~(index_lower < Len(data))

\* C1: when the loop of _compact exits normally, every adjacent pair of the
\* stream is in signature order and not mergeable.
C1_SortedAtExit == LoopExited => InOrder(data)

C1_Witness ==
    LoopExited /\ calls.merge >= 1 /\ calls.swap >= 1 /\ Len(data) >= 2

\* the times of the samples a block holds, and the sample held at such a time
SampleTimes(b) == {b.start + k * Interval(b.rate) : k \in 0..(Len(b.data) - 1)}

ValueAt(b, t) == b.data[(t - b.start) \div Interval(b.rate) + 1]

\* the two blocks hold different samples at a time both cover
Differ(u, l) ==
    \E t \in SampleTimes(u) \cap SampleTimes(l) : ValueAt(u, t) # ValueAt(l, t)

\* floor(1.5 + (end - start) * sample_rate), as many samples as a block should hold
ExpectedCount(b) == (3 * Res + 2 * (EndTime(b) - b.start) * b.rate) \div (2 * Res)

SoundSize(b) == Len(b.data) = ExpectedCount(b)

\* _compact is about to call _merge on the pair at the cursor
MergeCalled ==
    /\ pc = "loop" /\ index_lower < Len(data) /\ ~compact_list
    /\ Overlap(Signature(At(data, index_lower)), Signature(At(data, index_lower - 1)))

UpperBlock == At(data, index_lower - 1)

LowerBlock == At(data, index_lower)

\* the exceptions _merge raises
MergeErrors == {"TypeConflict", "SizeCorruption", "ValueError", "MutationConflict"}

ScratchEmpty == \A n \in BackupNames : scratch[n] = NoFile

\* the step of a conflicting merge, and the file after it
C2_Step ==
    (MergeCalled /\ ~compact_mutate /\ Differ(UpperBlock, LowerBlock))
        => (err' \in MergeErrors /\ pc' = "unwind" /\ disk' = disk /\ scratch' = scratch)

C2_Frame ==
    (err \in MergeErrors /\ pc \in {"unwind", "raised", "scan", "aborted", "done"})
        => (disk = orig /\ ScratchEmpty)

\* C2: without compact_mutate (and no list-only), a merge of a pair whose
\* samples differ at a time both blocks cover raises an error, and from then
\* on the file is on disk as it was and temp_dir holds no backup, whatever
\* the pass did to the stream in memory before.
C2_ConflictLeavesFile == [][C2_Step]_vars /\ []C2_Frame

C2_Witness ==
    /\ pc = "unwind" /\ err = "MutationConflict"
    /\ calls.swap >= 1 /\ calls.merge >= 2
    /\ data # orig[cur].blocks /\ disk = orig

\* the step of a merge that overwrites older samples
C3_Step ==
    (/\ MergeCalled /\ compact_mutate
     /\ UpperBlock.dtype = LowerBlock.dtype
     /\ SoundSize(UpperBlock) /\ SoundSize(LowerBlock)
     /\ Differ(UpperBlock, LowerBlock))
        => /\ err' = "none" /\ pc' = "loop"
           /\ Len(data') = Len(data) - 1
           /\ \A t \in SampleTimes(UpperBlock) \cap SampleTimes(LowerBlock) :
                 /\ t \in SampleTimes(data'[index_lower])
                 /\ ValueAt(data'[index_lower], t) = ValueAt(LowerBlock, t)

C4_Step ==
    compact_list =>
        /\ disk' = disk /\ scratch' = scratch
        /\ calls'.merge = 0 /\ calls'.replace = 0
        /\ pc' \notin ReplacePcs
        /\ (/\ pc = "loop" /\ index_lower < Len(data)
            /\ Overlap(Signature(LowerBlock), Signature(UpperBlock)))
              => (/\ found_duplicates' /\ pc' = "unlock"
                  /\ data' = data /\ index_lower' = index_lower)

\* C4: in list-only mode no step changes the file at any path or temp_dir,
\* _merge and _replace are never called, and at the first mergeable adjacent
\* pair _compact notes the duplicates and returns, the stream and the cursor
\* left where they were.
C4_ListOnlyTouchesNothing == [][C4_Step]_vars

C4_Witness ==
    /\ compact_list /\ pc = "unlock" /\ found_duplicates
    /\ calls.swap >= 1 /\ index_lower + 1 < Len(data)
    /\ disk = orig

\* C5: the duplicates-found failure is raised once, after every path of the
\* run has been handed to process.
C5_RaisedOnceAtEnd ==
    LET dups == {i \in 1..Len(events) : events[i][2] = "DuplicatesFound"}
    IN  /\ Cardinality(dups) <= 1
        /\ dups # {} => cur = nfiles

\* some block of the stream has a sample count other than its span says
HasUnsound(d) == \E k \in 1..Len(d) : ~SoundSize(d[k])

\* C6, as claimed: a file with a block of unsound size never gets through
\* _compact, and fails with a size error and no other.
C6_AnyUnsoundBlockFails ==
    (cur >= 1 /\ HasUnsound(orig[cur].blocks))
        => /\ pc \notin {"unlock", "replace"}
           /\ pc = "unwind" => err = "SizeCorruption"

\* the step of a merge of a block of unsound size
C6_Step ==
    (/\ MergeCalled
     /\ UpperBlock.dtype = LowerBlock.dtype \/ compact_mixed_types
     /\ ~SoundSize(UpperBlock) \/ ~SoundSize(LowerBlock))
        => (err' = "SizeCorruption" /\ pc' = "unwind" /\ data' = data)

\* C6, amended: when _merge is called on a pair with a block of unsound size
\* and the datatypes are equal or compact_mixed_types is on, it raises the
\* size error and leaves the stream alone, whatever compact_mutate is.
C6_UnsoundMergeFails == [][C6_Step]_vars

C6_Witness ==
    /\ pc = "unwind" /\ err = "SizeCorruption"
    /\ compact_mutate /\ compact_mixed_types
    /\ data[1].dtype # data[2].dtype
    /\ Len(data[2].data) < ExpectedCount(data[2])

\* the step of a merge of two datatypes that are allowed to mix
C7_Step ==
    (MergeCalled /\ compact_mixed_types /\ UpperBlock.dtype # LowerBlock.dtype)
        => data' = data

\* C7: with compact_mixed_types, a merge attempted on a pair of different
\* datatypes leaves both blocks in the stream, unchanged.
C7_MixedTypesNotMerged == [][C7_Step]_vars

\* the step of a merge of two datatypes that may not mix, and the file after it
C8_Step ==
    (MergeCalled /\ ~compact_mixed_types /\ UpperBlock.dtype # LowerBlock.dtype)
        => /\ err' = "TypeConflict" /\ pc' = "unwind"
           /\ data' = data /\ disk' = disk /\ scratch' = scratch

C8_Frame ==
    (err = "TypeConflict" /\ pc \in {"unwind", "raised", "scan", "aborted", "done"})
        => (disk = orig /\ ScratchEmpty /\ data = orig[cur].blocks)

\* C8: without compact_mixed_types (and no list-only), a merge attempted on
\* a pair of different datatypes raises the type error, also when a size is
\* unsound, leaves the stream alone, and from then on the file is on disk as
\* it was and temp_dir holds no backup.
C8_TypeConflictFirst == [][C8_Step]_vars /\ []C8_Frame

C8_Witness ==
    /\ pc = "unwind" /\ err = "TypeConflict"
    /\ ~SoundSize(data[1]) /\ ~SoundSize(data[2])
    /\ disk = orig

\* the positions of _replace before data.write has returned
BeforeWritten == {"replace", "move", "copying", "copied", "write", "writing"}

\* C9: from the start of _replace until the write has completed, also when
\* the process dies or the write fails, the original file is at its path or
\* at the backup path; once the move is done and before the write begins it
\* is at the backup path and nothing is at its path.
C9_OriginalKept ==
    /\ (\/ pc \in BeforeWritten
        \/ pc = "crashed" /\ crash_at \in BeforeWritten
        \/ pc = "unwind" /\ err = "WriteError")
          => \/ disk[cur] = orig[cur]
             \/ copy \in BackupNames /\ scratch[copy] = orig[cur]
    /\ (pc = "write" \/ (pc = "crashed" /\ crash_at = "write"))
          => (scratch[copy] = orig[cur] /\ disk[cur] = NoFile)

C9_Witness ==
    /\ pc = "crashed" /\ crash_at = "write"
    /\ disk[cur] = NoFile /\ scratch[copy] = orig[cur]
    /\ data # orig[cur].blocks

\* C10, as claimed: no path ever holds a half-written file.
C10_NeverHalfWritten == \A p \in PathIds : disk[p].st # "partial"

\* C10, amended: a path holds its original file, a completely written file,
\* or else (no file, or a half-written one) the original is in temp_dir.
C10_HalfWrittenHasBackup ==
    \A p \in PathIds :
        \/ disk[p] = orig[p]
        \/ disk[p].st = "complete"
        \/ \E n \in BackupNames : scratch[n] = orig[p]

C10_Witness ==
    \E p \in PathIds :
        /\ disk[p].st = "partial" /\ pc = "raised" /\ err = "WriteError"
        /\ \E n \in BackupNames : scratch[n] = orig[p]

\* a step that removes or changes a complete file of temp_dir
C11_Step ==
    \A n \in BackupNames :
        (scratch[n].st = "complete" /\ scratch'[n] # scratch[n])
            => /\ pc = "written" /\ delete_files /\ n = copy
               /\ disk[cur] = File(data) /\ err = "none"
               /\ scratch'[n] = NoFile

\* the backup after a failed write, and after a replacement that keeps it
C11_Kept ==
    /\ (err = "WriteError" /\ pc \in {"unwind", "raised"})
          => /\ scratch[copy] = orig[cur]
             /\ pc = "raised" => events[Len(events)] = <<cur, "WriteError">>
    /\ (/\ ~delete_files /\ calls.replace = 1
        /\ pc \in {"unlock", "index", "finish", "scan", "done"})
          => scratch[copy] = orig[cur]

\* C11: a backup in temp_dir is removed only by _replace itself, with
\* delete_files on and after the write to the path has returned; when the
\* write fails the error leaves process and the backup holds the original
\* file, and with delete_files off the backup holds the original file after
\* every replacement.
C11_BackupRemovedOnlyAfterWrite == [][C11_Step]_vars /\ []C11_Kept

C11_Witness ==
    /\ ~delete_files /\ cur = 2 /\ pc = "raised" /\ err = "WriteError"
    /\ scratch[copy] = orig[2] /\ disk[2] # orig[2]
    /\ disk[1] # orig[1] /\ disk[1].st = "complete"
    /\ \E n \in BackupNames : n # copy /\ scratch[n] = orig[1]

\* the positions of process inside the with block
InSection == {"read", "loop", "unlock", "unwind"} \cup ReplacePcs

\* C12: while process decodes, compacts or replaces the file of a path it
\* holds the lock of that path and no other process does; and once process
\* has left the with block, normally, by the early return of a listing, or
\* by a merge or a write error, it holds no lock.
C12_LockedSection ==
    /\ locked \subseteq {cur}
    /\ pc \in InSection => (cur \in locked /\ other_lock # cur)
    /\ pc \in {"scan", "process", "lock", "index", "finish", "raised", "aborted", "done"}
          => locked = {}

C12_Witness ==
    /\ pc = "raised" /\ err = "WriteError" /\ calls.replace = 1
    /\ locked = {} /\ other_lock = cur

\* C13, as claimed: the indexer is invoked on a path only while process
\* holds the lock of that path.
C13_IndexedUnderLock == [][Len(indexed') > Len(indexed) => cur \in locked]_vars

\* a call of the indexer
C13_Step ==
    Len(indexed') > Len(indexed)
        => /\ pc = "index" /\ err = "none"
           /\ locked = {}
           /\ indexed' = Append(indexed, cur)

\* C13, amended: the indexer is invoked on a path only after process has
\* left the with block normally and released the lock of the path; process
\* holds no lock during the call, so another process may hold it.
C13_IndexedAfterRelease == [][C13_Step]_vars

C13_Witness ==
    /\ pc = "finish" /\ indexed # <<>> /\ indexed[Len(indexed)] = cur
    /\ calls.replace = 1 /\ disk[cur] # orig[cur]
    /\ locked = {} /\ other_lock = cur

\* how often the indexer was invoked on path p
TimesIndexed(p) == Cardinality({k \in 1..Len(indexed) : indexed[k] = p})

\* C14: once process has left _compact without an exception, changed file or
\* not, duplicates listed or not, and has passed the index step, the indexer
\* was invoked exactly once on the path if indexing is enabled and the path
\* lies under mseed_dir, and the duplicates error comes after that call; the
\* indexer is never invoked before that, on a path outside mseed_dir, or
\* with indexing disabled.
C14_IndexedOnce ==
    /\ \A k \in 1..Len(indexed) : index /\ in_store[indexed[k]]
    /\ \A p \in PathIds : TimesIndexed(p) <= 1 /\ (p > cur => TimesIndexed(p) = 0)
    /\ (pc = "finish" \/ (pc = "raised" /\ err = "DuplicatesFound"))
          => TimesIndexed(cur) = IF index /\ in_store[cur] THEN 1 ELSE 0
    /\ (pc \in InSection \cup {"process", "lock", "index"}
        \/ (pc = "raised" /\ err # "DuplicatesFound"))
          => TimesIndexed(cur) = 0

C14_Witness ==
    /\ pc = "raised" /\ err = "DuplicatesFound" /\ compact_list
    /\ ~mutated /\ disk = orig
    /\ index /\ in_store[cur] /\ indexed = <<cur>>

\* a pass of the loop of _compact over d makes no swap and no merge: at
\* every cursor from 1 on, the pair is neither mergeable nor out of order
NoOpPass(d) ==
    \A i \in 1..(Len(d) - 1) :
        /\ ~mergeable(Signature(At(d, i)), Signature(At(d, i - 1)))
        /\ ~SigLt(Signature(At(d, i)), Signature(At(d, i - 1)))

\* the state of a second run, and a step of it
C15_Again ==
    (again /\ ~compact_list)
        => /\ calls = [merge |-> 0, swap |-> 0, replace |-> 0]
           /\ ~mutated /\ pc \notin ReplacePcs

C15_Step == (again /\ ~compact_list) => (disk' = disk /\ scratch' = scratch)

\* C15: a pass of _compact over the stream that a pass has just produced
\* makes no swap and no merge, whatever the flags; and when the command is
\* run again (no listing) over files whose first run raised nothing, process
\* calls neither _swap, _merge nor _replace, reports no mutation and leaves
\* the files and temp_dir as they are.
C15_Idempotent ==
    /\ [](LoopExited => NoOpPass(data))
    /\ []C15_Again
    /\ [][C15_Step]_vars

C15_Witness ==
    /\ again /\ ~compact_list /\ LoopExited
    /\ ~mutated /\ calls.swap = 0 /\ calls.merge = 0
    /\ Len(orig[1].blocks) = 3 /\ Len(data) = 2 /\ disk[1] = File(data)
    /\ ~InOrder(orig[1].blocks)

\* the sample times of block b outside the span of block o
OnlyTimes(b, o) == {t \in SampleTimes(b) : ~(o.start <= t /\ t <= EndTime(o))}

\* block m holds every sample that b has at a time outside the span of o, at
\* the index that is the number of sample intervals from the start of m
Conserved(b, o, m) ==
    \A t \in OnlyTimes(b, o) :
        LET n == t - m.start
        IN  /\ n % Interval(b.rate) = 0
            /\ n \div Interval(b.rate) < Len(m.data)
            /\ m.data[n \div Interval(b.rate) + 1] = ValueAt(b, t)

\* the two starts differ by a whole number of sample intervals
Aligned(u, l) == (u.start - l.start) % Interval(u.rate) = 0

\* a merge of one datatype and equal common samples that succeeds
CleanMerge ==
    /\ MergeCalled /\ UpperBlock.dtype = LowerBlock.dtype
    /\ ~Differ(UpperBlock, LowerBlock)
    /\ err' = "none"

\* C16, as claimed: after a successful merge without conflict, the merged
\* block holds every sample that only one of the two blocks covers, at the
\* index that is the number of sample intervals from the union start.
C16_Conservation ==
    [][CleanMerge =>
          /\ Conserved(UpperBlock, LowerBlock, data'[index_lower])
          /\ Conserved(LowerBlock, UpperBlock, data'[index_lower])]_vars

\* C16, amended: the same, for a pair whose starts differ by a whole number
\* of sample intervals.
C16_AlignedConservation ==
    [][(CleanMerge /\ Aligned(UpperBlock, LowerBlock)) =>
          /\ data'[index_lower].start = Min(UpperBlock.start, LowerBlock.start)
          /\ Conserved(UpperBlock, LowerBlock, data'[index_lower])
          /\ Conserved(LowerBlock, UpperBlock, data'[index_lower])]_vars

C16_Witness ==
    /\ pc = "loop" /\ calls.merge = 1 /\ err = "none" /\ Len(data) = 1
    /\ LET u == orig[1].blocks[1]
           l == orig[1].blocks[2]
       IN  /\ u.dtype = l.dtype /\ ~Differ(u, l) /\ Aligned(u, l)
           /\ OnlyTimes(u, l) # {} /\ OnlyTimes(l, u) # {}
           /\ \E t \in OnlyTimes(u, l) : ValueAt(u, t) # 0
           /\ \E t \in OnlyTimes(l, u) : ValueAt(l, t) # 0

\* a merge of one datatype, sound sizes and equal common samples
SoundMerge ==
    /\ MergeCalled /\ UpperBlock.dtype = LowerBlock.dtype
    /\ SoundSize(UpperBlock) /\ SoundSize(LowerBlock)
    /\ ~Differ(UpperBlock, LowerBlock)

\* the step replaces the pair at the cursor by one block over the union of
\* the two spans and leaves the other blocks as they are
MergedInPlace ==
    LET m == data'[index_lower]
        first == Min(UpperBlock.start, LowerBlock.start)
        last == Max(EndTime(UpperBlock), EndTime(LowerBlock))
    IN  /\ err' = "none" /\ pc' = "loop"
        /\ Len(data') = Len(data) - 1
        /\ m.start = first /\ EndTime(m) = last
        /\ m.npts = (3 * Res + 2 * (last - first) * m.rate) \div (2 * Res)
        /\ Len(m.data) = m.npts
        /\ m.snclq = UpperBlock.snclq /\ m.rate = UpperBlock.rate
        /\ \A k \in 1..Len(data') :
              /\ k < index_lower => data'[k] = data[k]
              /\ k > index_lower => data'[k] = data[k + 1]

\* C17, as claimed: a merge of a mergeable pair of one datatype, sound sizes
\* and equal common samples raises nothing, whatever the flags, and replaces
\* the pair by one block at i-1 from the earlier start to the later end,
\* with the sample count of that span; the other blocks stay as they are.
C17_MergeResult == [][SoundMerge => MergedInPlace]_vars

\* C17, amended: the same, for a pair whose starts differ by a whole number
\* of sample intervals.
C17_AlignedMergeResult ==
    [][(SoundMerge /\ Aligned(UpperBlock, LowerBlock)) => MergedInPlace]_vars

C17_Witness ==
    /\ pc = "loop" /\ err = "none" /\ calls.merge = 1 /\ calls.swap = 0
    /\ ~compact_mutate
    /\ Len(orig[1].blocks) = 3 /\ Len(data) = 2
    /\ Aligned(orig[1].blocks[1], orig[1].blocks[2])
    /\ data[1].npts = 3 /\ data[1].start = 0
    /\ data[2] = orig[1].blocks[3]

\* how often block x occurs in the sequence d
Count(d, x) == Cardinality({k \in 1..Len(d) : d[k] = x})

\* the two sequences hold the same blocks, each as often
Permutation(d, e) ==
    /\ Len(d) = Len(e)
    /\ \A k \in 1..Len(d) : Count(d, d[k]) = Count(e, d[k])

Sorted(d) ==
    \A k \in 1..(Len(d) - 1) : OrderLe(Signature(d[k]), Signature(d[k + 1]))

\* C18: when the loop of _compact exits and no mergeable pair has come up
\* (no merge was made and no duplicates were listed), the stream holds the
\* blocks of the file that was read, each with its samples and times, in
\* signature order, and mutated is set exactly when the file was not in
\* that order.
C18_OnlySwaps ==
    (LoopExited /\ calls.merge = 0)
        => /\ Permutation(data, disk[cur].blocks)
           /\ Sorted(data)
           /\ mutated <=> ~Sorted(disk[cur].blocks)
           /\ mutated <=> calls.swap > 0

C18_Witness ==
    /\ LoopExited /\ calls.merge = 0 /\ calls.swap >= 2 /\ mutated
    /\ Len(data) = 3 /\ data[1] = disk[cur].blocks[3]
    /\ data[1].snclq = data[2].snclq

\* process has called _swap or _merge on the file of the current path
Changed == calls.swap + calls.merge > 0

\* a step that touches a file or temp_dir, and the step that leaves the loop
C19_Step ==
    /\ (disk' # disk \/ scratch' # scratch) => (pc \in ReplacePcs /\ calls.replace = 1)
    /\ (LoopExited /\ pc' # pc)
          => /\ pc' \in {"replace", "unlock"}
             /\ pc' = "replace" <=> (~compact_list /\ Changed)

\* where _replace is called from
C19_Called ==
    /\ calls.replace <= 1
    /\ (pc \in ReplacePcs \/ calls.replace = 1)
          => /\ ~compact_list /\ Changed /\ mutated
             /\ ~(index_lower < Len(data))
             /\ \A k \in 1..Len(events) : events[k][1] = cur => events[k][2] = "WriteError"

\* C19: process calls _replace exactly when the loop of _compact has exited
\* normally, list-only is off and _swap or _merge was called at least once;
\* no step outside _replace changes a file or temp_dir.
C19_RewrittenIffChanged == [][C19_Step]_vars /\ []C19_Called

C19_Witness ==
    /\ pc = "written" /\ calls.swap >= 1 /\ calls.merge >= 1
    /\ disk[1] = File(data) /\ disk[1] # orig[1]
    /\ scratch[copy] = orig[1]

\* the fields of the tuple are equal, one by one
FieldsEq(a, b) ==
    /\ a.snclq = b.snclq /\ a.sample_rate = b.sample_rate
    /\ a.start_time = b.start_time /\ a.end_time = b.end_time

\* the order of the channel keys
KeyLt(a, b) ==
    \/ a.snclq < b.snclq
    \/ a.snclq = b.snclq /\ a.sample_rate < b.sample_rate

ExactlyOne(p, q, r) == (p /\ ~q /\ ~r) \/ (~p /\ q /\ ~r) \/ (~p /\ ~q /\ r)

\* C20: for the signatures a, b, c of any blocks of a stream as it is read
\* in the first run (before any swap or merge), exactly one
\* of a < b, a = b (field by field), b < a holds, == agrees with the
\* equality of the fields, a < b and b < c give a < c, and two signatures
\* of different channel keys are ordered as their keys are.
C20_StrictTotalOrder ==
    (pc = "loop" /\ index_lower = 1 /\ ~mutated /\ ~again /\ other_lock = 0) =>
        LET sig == [i \in 1..Len(data) |-> Signature(data[i])]
        IN  /\ \A i, j \in 1..Len(data) :
                  /\ ExactlyOne(SigLt(sig[i], sig[j]), FieldsEq(sig[i], sig[j]),
                                SigLt(sig[j], sig[i]))
                  /\ SigEq(sig[i], sig[j]) <=> FieldsEq(sig[i], sig[j])
                  /\ snclqr(sig[i]) # snclqr(sig[j])
                        => (SigLt(sig[i], sig[j]) <=> KeyLt(sig[i], sig[j]))
            /\ \A i, j, k \in 1..Len(data) :
                  (SigLt(sig[i], sig[j]) /\ SigLt(sig[j], sig[k])) => SigLt(sig[i], sig[k])

C20_Witness ==
    /\ pc = "loop" /\ index_lower = 1 /\ ~mutated /\ ~again /\ other_lock = 0
    /\ Len(data) = 3
    /\ data[1].snclq = data[2].snclq /\ data[1].rate = data[2].rate
    /\ data[1].start = data[2].start /\ data[1].npts < data[2].npts
    /\ data[3].snclq > data[1].snclq /\ data[3].rate > data[1].rate
    /\ data[3].start < data[1].start

\* the signatures of the stream as it is read in the first run
FirstRead == pc = "loop" /\ index_lower = 1 /\ ~mutated /\ ~again /\ other_lock = 0

\* C21: for the signatures a, b of any two blocks of a stream, mergeable(a, b)
\* holds exactly when a and b have the same channel key and a.start <= b.end
\* and b.start <= a.end; it is false when the channel keys differ, and
\* mergeable(a, b) = mergeable(b, a).
C21_MergeableIffOverlap ==
    FirstRead =>
        LET sig == [i \in 1..Len(data) |-> Signature(data[i])]
        IN  \A i, j \in 1..Len(data) :
                /\ mergeable(sig[i], sig[j]) <=> Overlap(sig[i], sig[j])
                /\ (sig[i].snclq # sig[j].snclq \/ sig[i].sample_rate # sig[j].sample_rate)
                      => ~mergeable(sig[i], sig[j])
                /\ mergeable(sig[i], sig[j]) <=> mergeable(sig[j], sig[i])

\* a stream of two blocks of one channel that touch, the later one first,
\* and a block of another channel over the same time
C21_Witness ==
    /\ FirstRead /\ Len(data) = 3
    /\ data[1].snclq = data[2].snclq /\ data[1].rate = data[2].rate
    /\ data[1].start = EndTime(data[2]) /\ data[2].start < data[1].start
    /\ data[3].snclq # data[1].snclq /\ data[3].start = data[2].start

\* the pairs of positions of the stream that are out of signature order
Inversions(d) ==
    Cardinality({q \in (1..Len(d)) \X (1..Len(d)) :
                    q[1] < q[2] /\ ~OrderLe(Signature(d[q[1]]), Signature(d[q[2]]))})

\* a pass of the loop body that stays in the loop makes the stream shorter,
\* or keeps its length and puts one more pair in order, or keeps both and
\* moves the cursor towards the end
C22_Step ==
    (InLoop /\ pc' = "loop" /\ <<data', index_lower'>> # <<data, index_lower>>)
        => \/ Len(data') < Len(data)
           \/ /\ Len(data') = Len(data)
              /\ Inversions(data') < Inversions(data)
           \/ /\ Len(data') = Len(data)
              /\ Inversions(data') = Inversions(data)
              /\ Len(data') - index_lower' < Len(data) - index_lower
              /\ index_lower' <= Len(data')

\* C22: once the loop of _compact is entered it ends: the cursor reaches
\* the length of the stream, or the listing returns early, or _merge raises;
\* no pass of the body brings back an earlier stream and cursor.
C22_LoopTerminates ==
    /\ InLoop ~> (LoopExited \/ (pc = "unlock" /\ found_duplicates) \/ pc = "unwind")
    /\ [][C22_Step]_vars

\* the loop has ended after the cursor stepped back for swaps and for a merge
C22_Witness ==
    /\ LoopExited /\ ~again /\ calls.swap >= 2 /\ calls.merge >= 1
    /\ Len(orig[1].blocks) = 3 /\ Len(data) = 2

\* C23: whenever the loop condition of _compact is evaluated the cursor is
\* at least 1, the two indices the body reads (cursor - 1 and cursor) are
\* inside the stream when the body is entered, and every adjacent pair
\* before the cursor is in signature order and not mergeable.
C23_LoopInvariant ==
    pc = "loop" =>
        /\ index_lower >= 1
        /\ index_lower <= Max(1, Len(data))
        /\ InLoop => (0 <= index_lower - 1 /\ index_lower <= Len(data) - 1)
        /\ \A k \in 1..(index_lower - 1) :
              k < Len(data) =>
                  /\ OrderLe(Signature(At(data, k - 1)), Signature(At(data, k)))
                  /\ ~Overlap(Signature(At(data, k - 1)), Signature(At(data, k)))

\* the cursor is back at the last pair after stepping back twice for swaps
C23_Witness ==
    /\ InLoop /\ ~again /\ index_lower = 2 /\ Len(data) = 3
    /\ calls.swap = 3 /\ calls.merge = 0

\* no two blocks of the stream, at any two positions, have the same channel
\* key and closed spans that overlap or touch
NoOverlapAnywhere(d) ==
    \A j, k \in 1..Len(d) :
        j # k => ~Overlap(Signature(d[j]), Signature(d[k]))

\* _compact has returned normally from a compaction that is no listing
Compacted == pc = "unlock" /\ ~compact_list

\* C24: after a successful compaction that is no listing, the file holds the
\* stream of _compact, and no two of its blocks of the same channel key, at
\* any two positions, overlap or touch in time.
C24_NoOverlapAnywhere ==
    Compacted => (disk[cur] = File(data) /\ NoOverlapAnywhere(disk[cur].blocks))

\* the first and the last block of the file overlapped, with a block of the
\* same channel between them that overlapped neither
C24_Witness ==
    /\ Compacted /\ ~again /\ calls.merge >= 1 /\ calls.swap >= 1
    /\ Len(orig[1].blocks) = 3 /\ Len(data) = 2
    /\ data[1].snclq = data[2].snclq /\ data[1].rate = data[2].rate
    /\ LET o == [k \in 1..3 |-> Signature(orig[1].blocks[k])]
       IN  Overlap(o[1], o[3]) /\ ~Overlap(o[1], o[2]) /\ ~Overlap(o[2], o[3])

\* _compact has returned from a listing
Listed == compact_list /\ pc \in {"unlock", "index", "finish"}

\* C25: when _compact returns from a listing, duplicates have been found
\* exactly when the file holds two blocks, at any two positions, of the
\* same channel key whose closed spans overlap or touch; process raises
\* for duplicates only for such a file.
C25_ListedIffOverlap ==
    /\ Listed => (found_duplicates <=> ~NoOverlapAnywhere(disk[cur].blocks))
    /\ (pc = "raised" /\ err = "DuplicatesFound")
          => (compact_list /\ ~NoOverlapAnywhere(disk[cur].blocks))

\* duplicates were found in a file in which no two neighbours overlapped:
\* the first and the last block did, and swaps brought them together
C25_Witness ==
    /\ Listed /\ found_duplicates /\ ~again /\ calls.swap >= 1
    /\ Len(disk[cur].blocks) = 3
    /\ LET o == [k \in 1..3 |-> Signature(disk[cur].blocks[k])]
       IN  Overlap(o[1], o[3]) /\ ~Overlap(o[1], o[2]) /\ ~Overlap(o[2], o[3])

\* a pass of the loop that calls _swap: the stream afterwards is the one with
\* the block at cursor - 1 taken out and put in again at the cursor
C26_Swap ==
    (InLoop /\ calls'.swap > calls.swap)
        => data' = [data EXCEPT ![index_lower] = data[index_lower + 1],
                                ![index_lower + 1] = data[index_lower]]

\* a pass of the loop in which _merge returns: the stream afterwards is the
\* one with the merged block at cursor - 1 and the block at the cursor taken out
C26_Merge ==
    (InLoop /\ calls'.merge > calls.merge /\ err' = "none")
        => /\ Len(data') = Len(data) - 1
           /\ \A k \in 1..Len(data') :
                 /\ k < index_lower => data'[k] = data[k]
                 /\ k > index_lower => data'[k] = data[k + 1]
           /\ LET m == data'[index_lower]
              IN  /\ m.snclq = UpperBlock.snclq /\ m.rate = UpperBlock.rate
                  /\ m.dtype = LowerBlock.dtype
                  /\ m.start = Min(UpperBlock.start, LowerBlock.start)
                  /\ m.npts = Len(m.data)

\* C26: in every pass of the loop of _compact, also over a stream that holds
\* the same block more than once, remove() leaves the stream that deleting
\* the block at the intended position leaves: no other block is lost or
\* moved.
C26_RemoveHitsIntended == [][C26_Swap /\ C26_Merge]_vars

\* a swap in a file that held the same block at its first and last position
C26_Witness ==
    /\ pc = "loop" /\ ~again /\ calls.swap = 1 /\ calls.merge = 0
    /\ Len(data) = 3
    /\ orig[1].blocks[1] = orig[1].blocks[3] /\ orig[1].blocks[1] # orig[1].blocks[2]
    /\ data[2] = data[3] /\ data[1] = orig[1].blocks[2]

\* _merge is called on a pair of sound sizes whose starts differ by a whole
\* number of sample intervals, and its check of the types lets the pair pass
AlignedMerge ==
    /\ MergeCalled
    /\ (UpperBlock.dtype = LowerBlock.dtype \/ compact_mixed_types)
    /\ SoundSize(UpperBlock) /\ SoundSize(LowerBlock)
    /\ Aligned(UpperBlock, LowerBlock)

\* the two target ranges of _merge lie inside the new buffer and cover it
C27_Ranges ==
    AlignedMerge =>
        LET first == Min(UpperBlock.start, LowerBlock.start)
            last == Max(EndTime(UpperBlock), EndTime(LowerBlock))
            n_samples == _data_size(last - first, LowerBlock.rate)
            ul == _locate(first, Signature(UpperBlock))
            ll == _locate(first, Signature(LowerBlock))
        IN  /\ 0 <= ul.offset /\ ul.offset + ul.length <= n_samples
            /\ 0 <= ll.offset /\ ll.offset + ll.length <= n_samples
            /\ ul.length = Len(UpperBlock.data) /\ ll.length = Len(LowerBlock.data)
            /\ \A c \in 0..(n_samples - 1) :
                  \/ (ul.offset <= c /\ c < ul.offset + ul.length)
                  \/ (ll.offset <= c /\ c < ll.offset + ll.length)

\* such a merge raises no error of a copy out of range, and what it leaves
\* does not depend on what the new buffer held before the copies
C27_Step ==
    AlignedMerge =>
        /\ err' # "ValueError"
        /\ \A g \in ValsOf(LowerBlock.dtype) :
              LET r == _merge(data, index_lower, compact_mixed_types, compact_mutate, g)
              IN  r.err = err' /\ r.data = data'

\* C27: in every merge of a mergeable pair of sample-aligned times that
\* passes both size checks, the two target ranges of _locate lie inside
\* [0, n_samples) and together cover it: no copy is out of range and no
\* cell of the new buffer keeps what np.empty left in it.
C27_RangesCoverBuffer == []C27_Ranges /\ [][C27_Step]_vars

\* a merge of two blocks of two samples that share one, the later block first
C27_Witness ==
    /\ pc = "loop" /\ ~again /\ calls.merge = 1 /\ err = "none" /\ Len(data) = 1
    /\ LET u == orig[1].blocks[1]
           l == orig[1].blocks[2]
       IN  /\ SoundSize(u) /\ SoundSize(l) /\ Aligned(u, l)
           /\ u.npts = 2 /\ l.npts = 2
           /\ l.start < u.start /\ u.start = EndTime(l)
    /\ data[1].npts = 3 /\ Len(data[1].data) = 3

\* C28, as claimed: when a _replace is about to move the original to the
\* backup path it has chosen, no file of temp_dir has that path, also when
\* another compaction of a path of the same base name runs at the same time.
C28_BackupNameFree ==
    /\ pc = "move" => ~exists(copy)
    /\ other_replace.pc = "move" => ~exists(other_replace.copy)

\* a call of the iterator: a push raises exactly when a pushed value has not
\* been asked for yet; __next__ returns that value and leaves the iterator
\* underneath alone, and otherwise returns the next item of the iterator
\* underneath, or raises StopIteration when there is none
C29_Step ==
    iterator' # iterator =>
        /\ iterator'.last.op = "push" => (iterator'.last.raised <=> iterator.pending)
        /\ iterator'.last.op = "next" =>
              IF iterator.pending
              THEN /\ ~iterator'.last.raised
                   /\ iterator'.last.value = iterator.held
                   /\ iterator'._iter = iterator._iter
              ELSE IF iterator._iter # <<>>
              THEN /\ ~iterator'.last.raised
                   /\ iterator'.last.value = Head(iterator._iter)
                   /\ iterator'._iter = Tail(iterator._iter)
              ELSE iterator'.last.raised

\* C29, as claimed: after push(v) the next __next__ returns v, for every
\* value v (0, the empty string and None among them), the call after that
\* goes on with the iterator underneath with no item lost or repeated, and
\* a second push before v has been returned raises.
C29_PushedComesNext == [][C29_Step]_vars

====
